---- MODULE Spec2Model ----
(***************************************************************************)
(* slot-backend: the daily "drop" API with streak bookkeeping and a        *)
(* runtime config table, in its two backends:                              *)
(*   src/unnamed/part_000  better-sqlite3, synchronous handlers            *)
(*   src/server.js         pg connection pool, asynchronous handlers       *)
(*                                                                         *)
(* Text values (config values, JSON strings) are sequences of one-         *)
(* character strings, so that parseInt and String() are computed.          *)
(* The clock `now` is Date.now() in milliseconds; it is sampled at one      *)
(* instant of each calendar day, so time passes a day at a time, between   *)
(* requests and inside them.  The store's clock is taken to be the same    *)
(* clock, in UTC, as toISOString() is.                                     *)
(* JavaScript numbers are records [nan, inf, n, e]: NaN compares false     *)
(* with everything.  Store outages (a query failing for reasons outside    *)
(* the request) are not modelled; the store errors a request itself        *)
(* provokes (a value the column rejects, a primary-key conflict) are.      *)
(***************************************************************************)
EXTENDS Integers, Sequences, FiniteSets

VARIABLES
  backend,   \* "sqlite" (part_000) or "pg" (server.js)
  tables,    \* whether the CREATE TABLE statements have run on the database
  now,       \* the clock, Date.now() in ms
  drops,     \* table drops: a bag of rows (the id column is never read)
  streaks,   \* table streaks: device_hash -> row, for the hashes that have one
  config,    \* table config: key -> value, for the keys present
  reqs,      \* pg backend: the requests in flight, slot -> frame
  last,      \* the most recent response sent
  hist       \* history: per device, its successful drops of a day, counted

vars == <<backend, tables, now, drops, streaks, config, reqs, last, hist>>

----------------------------------------------------------------------------
(* Bounds *)

MaxDay == 1       \* Spec: the clock stops after this day
MaxRows == 3      \* Spec: rows of drops
MaxSucc == 3      \* the history stops counting a day's successes here
AdmMaxDay == 1    \* SpecAdm
AdmMaxRows == 2   \* SpecAdm
PgMaxDay == 1     \* SpecPg
PgMaxRows == 3    \* SpecPg
StrMaxDay == 3    \* SpecStreak
StrMaxRows == 3   \* SpecStreak
NumSlots == 2     \* SpecPg: requests in flight
CfgMaxRows == 1   \* SpecCfg

Slots == 1..NumSlots
Devices == {"d1"}
AdminHash == "admin"

----------------------------------------------------------------------------
(* Text and numbers *)

\* Characters outside ASCII, and the control characters TLA+ has no escape
\* for, are written as one-character tokens.
NUL == "NUL"   \* the character U+0000
VT == "<VT>"
NBSP == "<NBSP>"
BOM == "<BOM>"
LS == "<LS>"
PS == "<PS>"

\* Unicode category Zs besides the space and the no-break space
SpaceSeparators ==
  {"<U+1680>", "<U+2000>", "<U+2001>", "<U+2002>", "<U+2003>", "<U+2004>",
   "<U+2005>", "<U+2006>", "<U+2007>", "<U+2008>", "<U+2009>", "<U+200A>",
   "<U+202F>", "<U+205F>", "<U+3000>"}

\* WhiteSpace and LineTerminator of ECMAScript, which parseInt and Number trim
WhiteSpace ==
  {" ", "\t", "\n", "\r", "\f", VT, NBSP, BOM, LS, PS} \cup SpaceSeparators

\* isspace() of the C locale, which the stores skip around a numeral
CSpace == {" ", "\t", "\n", "\r", "\f", VT}

\* A JavaScript number: NaN, an infinity (inf = 1 or -1), or n * 10^e.
\* A finite number is held in one form only: a whole number below 10^9 has
\* e = 0, any other has a mantissa n that does not end in 0.  A numeral
\* carries at most nine significant digits; -0 is held as 0, which it equals
\* in every comparison and in both stores.
NaN == [nan |-> TRUE, inf |-> 0, n |-> 0, e |-> 0]
Infinity(sign) == [nan |-> FALSE, inf |-> sign, n |-> 0, e |-> 0]
Num(n) == [nan |-> FALSE, inf |-> 0, n |-> n, e |-> 0]

Abs(n) == IF n < 0 THEN -n ELSE n
Sign(n) == IF n < 0 THEN -1 ELSE IF n > 0 THEN 1 ELSE 0

RECURSIVE Pow10(_)
Pow10(k) == IF k <= 0 THEN 1 ELSE 10 * Pow10(k - 1)

\* The number of decimal digits of a natural number
RECURSIVE NumDigits(_)
NumDigits(n) == IF n < 10 THEN 1 ELSE 1 + NumDigits(n \div 10)

\* n * 10^e of a non-zero n, with the zeros n ends in moved into e
RECURSIVE StripZeros(_, _)
StripZeros(n, e) ==
  IF n % 10 = 0 THEN StripZeros(n \div 10, e + 1) ELSE <<n, e>>

\* The first nine digits of a mantissa of at most nine digits
Lead9(n) == Abs(n) * Pow10(9 - NumDigits(Abs(n)))

\* Whole numbers beyond 2^31 are held in limbs of four decimal digits, the
\* lowest limb first.
Limb == 10000

RECURSIVE Limbs(_)
Limbs(n) == IF n < Limb THEN <<n>> ELSE <<n % Limb>> \o Limbs(n \div Limb)

RECURSIVE LimbsValue(_)
LimbsValue(a) ==
  IF a = <<>> THEN 0 ELSE Head(a) + Limb * LimbsValue(Tail(a))

\* The sum of the products a[i] * b[j] that fall on limb k of a product
RECURSIVE Column(_, _, _, _)
Column(a, b, k, i) ==
  IF i > Len(a) THEN 0
  ELSE (IF k + 1 - i \in 1..Len(b) THEN a[i] * b[k + 1 - i] ELSE 0)
         + Column(a, b, k, i + 1)

RECURSIVE Carry(_, _, _, _)
Carry(a, b, k, c) ==
  IF k > Len(a) + Len(b) THEN <<>>
  ELSE <<(Column(a, b, k, 1) + c) % Limb>>
         \o Carry(a, b, k + 1, (Column(a, b, k, 1) + c) \div Limb)

\* The product of two numbers in limbs
Times(a, b) == Carry(a, b, 1, 0)

\* a / Limb^q, rounded down and rounded to the nearest whole number
FloorAt(a, q) == LimbsValue(SubSeq(a, q + 1, Len(a)))
RoundAt(a, q) == FloorAt(a, q) + (IF a[q] >= Limb \div 2 THEN 1 ELSE 0)

\* Below 2^-1022 the doubles are the multiples of 2^-1074, the subnormal
\* grid.  StepsPerUnit is 2^1074 / 10^332, the grid steps in 10^-332, times
\* Limb^12; HalfStep is 2^-1075 * 10^324, half a step in units of 10^-324,
\* times Limb^10.  Both are cut after forty decimal places, which no product
\* with a nine-digit mantissa comes near.
StepsPerUnit == <<495, 7307, 1891, 3467, 2495, 1835, 3106, 3307, 225, 2024>>
HalfStep == <<8252, 6861, 4110, 9643, 2843, 2088, 2327, 9206, 2822, 4703, 2>>

\* The multiple of 2^-1074 nearest to m * 10^e, for -332 <= e <= -324
GridSteps(m, e) ==
  RoundAt(Times(Times(Limbs(m), Limbs(Pow10(e + 332))), StepsPerUnit), 12)

\* The decimal of fewest digits that is above lo and at most hi, as <<d, j>>
\* for d * 10^j; r is the one to take when none of them ends in 0.
RECURSIVE ShortestBetween(_, _, _, _)
ShortestBetween(lo, hi, r, j) ==
  IF hi \div 10 > lo \div 10
  THEN ShortestBetween(lo \div 10, hi \div 10, hi \div 10, j + 1)
  ELSE <<r, j>>

\* The double k * 2^-1074 as Number::toString writes it, in units of
\* 10^-324: of the decimals that round to it, those of fewest digits, and
\* of these the nearest.
GridDecimal(k) ==
  ShortestBetween(FloorAt(Times(Limbs(2 * k - 1), HalfStep), 10),
                  FloorAt(Times(Limbs(2 * k + 1), HalfStep), 10),
                  RoundAt(Times(Limbs(2 * k), HalfStep), 10), 0)

\* The subnormal double nearest to m * 10^e, m > 0 and e <= -324: a value
\* up to half a step, 2.4703282292062328e-324, is 0.
Subnormal(m, e) ==
  LET k == GridSteps(m, e)
      d == StripZeros(GridDecimal(k)[1], GridDecimal(k)[2] - 324)
  IN IF k = 0 THEN <<0, 0>> ELSE d

\* The double n * 10^e stands for: the largest double is
\* 1.7976931348623157e308; a numeral of nine digits with an exponent of -323
\* or more is the shortest decimal of its double and stands for itself, one
\* below is rounded to the subnormal grid.
Fin(n, e) ==
  IF n = 0 THEN Num(0)
  ELSE LET p == StripZeros(n, e)
           m == p[1]
           x == p[2]
           mag == NumDigits(Abs(m)) + x
       IN IF mag > 309 \/ (mag = 309 /\ Lead9(m) > 179769313)
          THEN Infinity(Sign(m))
          ELSE IF mag < -323 THEN Num(0)
          ELSE IF x <= -324
          THEN [nan |-> FALSE, inf |-> 0,
                n |-> Sign(m) * Subnormal(Abs(m), x)[1],
                e |-> Subnormal(Abs(m), x)[2]]
          ELSE IF x > 0 /\ mag <= 9 THEN Num(m * Pow10(x))
          ELSE [nan |-> FALSE, inf |-> 0, n |-> m, e |-> x]

\* The mantissa and exponent of a finite number, the mantissa not ending in 0
Mantissa(a) == IF a.n = 0 THEN <<0, 0>> ELSE StripZeros(a.n, a.e)

\* a < b on numbers that are not NaN
NumLess(a, b) ==
  IF a.inf # 0 \/ b.inf # 0
  THEN (a.inf = -1 /\ b.inf # -1) \/ (b.inf = 1 /\ a.inf # 1)
  ELSE IF a.e = 0 /\ b.e = 0 THEN a.n < b.n
  ELSE IF Sign(a.n) # Sign(b.n) THEN Sign(a.n) < Sign(b.n)
  ELSE IF a.n = 0 THEN FALSE
  ELSE LET p == Mantissa(a)
           q == Mantissa(b)
           ma == NumDigits(Abs(p[1])) + p[2]
           mb == NumDigits(Abs(q[1])) + q[2]
           lo == IF p[2] < q[2] THEN p[2] ELSE q[2]
       IN IF ma # mb THEN (IF a.n > 0 THEN ma < mb ELSE ma > mb)
          ELSE p[1] * Pow10(p[2] - lo) < q[1] * Pow10(q[2] - lo)

\* a > b on JavaScript numbers
JsGt(a, b) ==
  \E x \in {a}, y \in {b} : ~x.nan /\ ~y.nan /\ NumLess(y, x)

\* a >= b on JavaScript numbers
JsGe(a, b) ==
  \E x \in {a}, y \in {b} : ~x.nan /\ ~y.nan /\ ~NumLess(x, y)

\* Math.min(a, b): NaN when an argument is NaN, else the argument no other
\* is below
MathMin(a, b) ==
  LET args == {a, b}
  IN IF \E x \in args : x.nan THEN NaN
     ELSE CHOOSE x \in args : \A y \in args : ~NumLess(y, x)

\* Math.max(a, b) on integers
MathMax(a, b) == IF a >= b THEN a ELSE b

\* Whether a number is an integer
IsWhole(a) == ~a.nan /\ a.inf = 0 /\ a.e >= 0

S_true == <<"t", "r", "u", "e">>
S_false == <<"f", "a", "l", "s", "e">>
S_null == <<"n", "u", "l", "l">>
S_empty == <<>>
S_1 == <<"1">>
S_200 == <<"2", "0", "0">>
S_NaN == <<"N", "a", "N">>
S_Infinity == <<"I", "n", "f", "i", "n", "i", "t", "y">>

HexDigits == <<"0", "1", "2", "3", "4", "5", "6", "7", "8", "9",
               "a", "b", "c", "d", "e", "f">>
HexUpper == <<"0", "1", "2", "3", "4", "5", "6", "7", "8", "9",
              "A", "B", "C", "D", "E", "F">>

IsDigit(c, radix) == \E i \in 1..radix : c \in {HexDigits[i], HexUpper[i]}
DigitVal(c) == (CHOOSE i \in 1..16 : c \in {HexDigits[i], HexUpper[i]}) - 1

\* The string without the white space it starts with
RECURSIVE SkipSpace(_, _)
SkipSpace(s, ws) ==
  IF s # <<>> /\ Head(s) \in ws THEN SkipSpace(Tail(s), ws) ELSE s

\* The string without the white space it ends with
RECURSIVE DropSpace(_, _)
DropSpace(s, ws) ==
  IF s # <<>> /\ s[Len(s)] \in ws
  THEN DropSpace(SubSeq(s, 1, Len(s) - 1), ws)
  ELSE s

SkipWs(s) == SkipSpace(s, WhiteSpace)

\* String.prototype.trim, as Number applies it
TrimWs(s) == DropSpace(SkipWs(s), WhiteSpace)

RECURSIVE DigitPrefix(_, _)
DigitPrefix(s, radix) ==
  IF s # <<>> /\ IsDigit(Head(s), radix)
  THEN <<Head(s)>> \o DigitPrefix(Tail(s), radix)
  ELSE <<>>

RECURSIVE DigitsValue(_, _, _)
DigitsValue(ds, radix, acc) ==
  IF ds = <<>> THEN acc
  ELSE DigitsValue(Tail(ds), radix, acc * radix + DigitVal(Head(ds)))

\* s without its first k characters
Drop(s, k) == SubSeq(s, k + 1, Len(s))

\* parseInt(s) with no radix argument: leading white space, a sign, an
\* optional 0x prefix, then the longest run of digits; NaN when there is none.
ParseInt(s) ==
  LET t == SkipWs(s)
      neg == t # <<>> /\ Head(t) = "-"
      u == IF t # <<>> /\ Head(t) \in {"+", "-"} THEN Tail(t) ELSE t
      hex == Len(u) >= 2 /\ u[1] = "0" /\ u[2] \in {"x", "X"}
      radix == IF hex THEN 16 ELSE 10
      ds == DigitPrefix(IF hex THEN Tail(Tail(u)) ELSE u, radix)
      v == DigitsValue(ds, radix, 0)
  IN IF ds = <<>> THEN NaN ELSE Num(IF neg THEN -v ELSE v)

\* An unsigned decimal numeral: digits, an optional fraction, an optional
\* exponent, with a digit before or after the point.  ok tells whether the
\* whole of u is one; the value is n * 10^e.
DecimalLiteral(u) ==
  LET ip == DigitPrefix(u, 10)
      r1 == Drop(u, Len(ip))
      point == r1 # <<>> /\ Head(r1) = "."
      fp == IF point THEN DigitPrefix(Tail(r1), 10) ELSE <<>>
      r2 == IF point THEN Drop(r1, 1 + Len(fp)) ELSE r1
      expo == r2 # <<>> /\ Head(r2) \in {"e", "E"}
      r3 == IF expo THEN Tail(r2) ELSE r2
      eneg == r3 # <<>> /\ Head(r3) = "-"
      r4 == IF expo /\ r3 # <<>> /\ Head(r3) \in {"+", "-"} THEN Tail(r3)
            ELSE r3
      ed == IF expo THEN DigitPrefix(r4, 10) ELSE <<>>
      r5 == Drop(r4, Len(ed))
      ev == DigitsValue(ed, 10, 0)
  IN [ok |-> Len(ip) + Len(fp) >= 1 /\ (expo => ed # <<>>) /\ r5 = <<>>,
      n |-> DigitsValue(ip \o fp, 10, 0),
      e |-> (IF eneg THEN -ev ELSE ev) - Len(fp)]

\* A numeral with a radix prefix: 0x, 0o or 0b and digits of that radix
RadixOf(u) ==
  IF Len(u) >= 2 /\ u[1] = "0"
  THEN CASE u[2] \in {"x", "X"} -> 16
         [] u[2] \in {"o", "O"} -> 8
         [] u[2] \in {"b", "B"} -> 2
         [] OTHER -> 10
  ELSE 10

\* StringToNumber: Number(s) of a string
StringToNumber(s) ==
  LET t == TrimWs(s)
      radix == RadixOf(t)
      ds == DigitPrefix(Drop(t, 2), radix)
      neg == t # <<>> /\ Head(t) = "-"
      u == IF t # <<>> /\ Head(t) \in {"+", "-"} THEN Tail(t) ELSE t
      d == DecimalLiteral(u)
  IN IF t = <<>> THEN Num(0)
     ELSE IF radix # 10
     THEN (IF ds # <<>> /\ Len(ds) = Len(t) - 2
           THEN Fin(DigitsValue(ds, radix, 0), 0) ELSE NaN)
     ELSE IF u = S_Infinity THEN Infinity(IF neg THEN -1 ELSE 1)
     ELSE IF ~d.ok THEN NaN
     ELSE Fin(IF neg THEN -d.n ELSE d.n, d.e)

RECURSIVE NatToString(_)
NatToString(n) ==
  IF n < 10 THEN <<HexDigits[n + 1]>>
  ELSE NatToString(n \div 10) \o <<HexDigits[(n % 10) + 1]>>

\* k zeros
Zeros(k) == [i \in 1..k |-> "0"]

\* Number::toString of a positive finite number m * 10^x, m not ending in 0
PositiveToString(m, x) ==
  LET ds == NatToString(m)
      k == Len(ds)
      pt == k + x
      ex == pt - 1
      es == (IF ex < 0 THEN <<"e", "-">> ELSE <<"e", "+">>)
              \o NatToString(Abs(ex))
  IN IF k <= pt /\ pt <= 21 THEN ds \o Zeros(pt - k)
     ELSE IF 0 < pt /\ pt <= 21
     THEN SubSeq(ds, 1, pt) \o <<".">> \o Drop(ds, pt)
     ELSE IF -6 < pt /\ pt <= 0 THEN <<"0", ".">> \o Zeros(-pt) \o ds
     ELSE IF k = 1 THEN ds \o es
     ELSE <<Head(ds), ".">> \o Tail(ds) \o es

\* String(x) of a number
NumberToString(a) ==
  IF a.nan THEN S_NaN
  ELSE IF a.inf # 0
  THEN (IF a.inf < 0 THEN <<"-">> ELSE <<>>) \o S_Infinity
  ELSE IF a.n = 0 THEN <<"0">>
  ELSE LET p == Mantissa(a)
       IN (IF a.n < 0 THEN <<"-">> ELSE <<>>)
            \o PositiveToString(Abs(p[1]), p[2])

\* JSON values of a request body: strings, numbers, booleans and null
JStr(s) == [t |-> "str", s |-> s, n |-> Num(0), b |-> FALSE]
JNum(n) == [t |-> "num", s |-> <<>>, n |-> Num(n), b |-> FALSE]
JReal(n, e) == [t |-> "num", s |-> <<>>, n |-> Fin(n, e), b |-> FALSE]
JBool(b) == [t |-> "bool", s |-> <<>>, n |-> Num(0), b |-> b]
JNull == [t |-> "null", s |-> <<>>, n |-> Num(0), b |-> FALSE]

\* String(value)
JsString(v) ==
  CASE v.t = "str" -> v.s
    [] v.t = "num" -> NumberToString(v.n)
    [] v.t = "bool" -> IF v.b THEN S_true ELSE S_false
    [] OTHER -> S_null

\* Number(value), as Math.min applies it to a JSON value
ToNumber(v) ==
  CASE v.t = "num" -> v.n
    [] v.t = "bool" -> Num(IF v.b THEN 1 ELSE 0)
    [] v.t = "null" -> Num(0)
    [] OTHER -> StringToNumber(v.s)

----------------------------------------------------------------------------
(* Dates *)

MsPerDay == 86400000

\* toISOString().slice(0, 10) of an instant: its calendar day, as a number
IsoDate(t) == t \div MsPerDay

\* new Date().toISOString().slice(0, 10)
Today(t) == IsoDate(t)

\* new Date(Date.now() - 86400000).toISOString().slice(0, 10)
Yesterday(t) == IsoDate(t - MsPerDay)

\* DATE(created_at)
DateOf(row) == IsoDate(row.created_at)

\* The time that may pass between two points of a handler
Elapsed == {0, MsPerDay}

----------------------------------------------------------------------------
(* Tables *)

defaults ==
  [type_enabled |-> S_true, speak_enabled |-> S_true, draw_enabled |-> S_true,
   streaks_enabled |-> S_true, global_drops_visible |-> S_true,
   live_counter_visible |-> S_true, seasonal_accent |-> S_true,
   max_chars |-> S_200, drops_per_day |-> S_1, announcement |-> S_empty]

\* Object.entries(defaults)
defaultEntries ==
  << <<"type_enabled", S_true>>, <<"speak_enabled", S_true>>,
     <<"draw_enabled", S_true>>, <<"streaks_enabled", S_true>>,
     <<"global_drops_visible", S_true>>, <<"live_counter_visible", S_true>>,
     <<"seasonal_accent", S_true>>, <<"max_chars", S_200>>,
     <<"drops_per_day", S_1>>, <<"announcement", S_empty>> >>

\* config.key || dflt
OrDefault(cfg, key, dflt) ==
  IF key \in DOMAIN cfg /\ cfg[key] # <<>> THEN cfg[key] ELSE dflt

\* The value of a key the table holds, with the new value after it
UpsertAppend(cfg, key, value) ==
  [k \in (DOMAIN cfg) \cup {key} |->
     IF k # key THEN cfg[k]
     ELSE IF k \in DOMAIN cfg THEN cfg[k] \o value ELSE value]

\* INSERT ... ON CONFLICT (key) DO UPDATE / INSERT OR REPLACE
Upsert(cfg, key, value) ==
  [k \in (DOMAIN cfg) \cup {key} |-> IF k = key THEN value ELSE cfg[k]]

\* INSERT with ON CONFLICT DO UPDATE in place of DO NOTHING
InsertOrReplace(cfg, key, value) ==
  [k \in (DOMAIN cfg) \cup {key} |-> IF k = key THEN value ELSE cfg[k]]

\* INSERT ... ON CONFLICT (key) DO NOTHING / INSERT OR IGNORE
InsertIfAbsent(cfg, key, value) ==
  IF key \in DOMAIN cfg THEN cfg ELSE Upsert(cfg, key, value)

\* The table drops is a bag: row -> how many rows (ids) hold these values.
EmptyTable == [r \in {} |-> 0]

\* INSERT INTO drops
InsertRow(tbl, row) ==
  [r \in (DOMAIN tbl) \cup {row} |->
     IF r = row THEN (IF row \in DOMAIN tbl THEN tbl[row] + 1 ELSE 1)
     ELSE tbl[r]]

\* The number of rows among rs
RECURSIVE CountRows(_, _)
CountRows(tbl, rs) ==
  IF rs = {} THEN 0
  ELSE LET r == CHOOSE x \in rs : TRUE
       IN tbl[r] + CountRows(tbl, rs \ {r})

\* SELECT COUNT(*) FROM drops
CountAll(tbl) == CountRows(tbl, DOMAIN tbl)

\* SELECT COUNT(*) FROM drops WHERE DATE(created_at) = day
CountDay(tbl, day) ==
  CountRows(tbl, {r \in DOMAIN tbl : DateOf(r) = day})

\* The count with created_at compared as it is stored, not its DATE()
CountDeviceNoDate(tbl, dev, day) ==
  CountRows(tbl, {r \in DOMAIN tbl : r.device_hash = dev /\ r.created_at = day})

\* SELECT COUNT(*) FROM drops WHERE device_hash = dev AND DATE(created_at) = day
CountDevice(tbl, dev, day) ==
  CountRows(tbl, {r \in DOMAIN tbl : r.device_hash = dev /\ DateOf(r) = day})

\* DELETE FROM drops, without the WHERE
DeleteAll(tbl, day) == EmptyTable

\* DELETE FROM drops WHERE DATE(created_at) = day
DeleteDay(tbl, day) ==
  [r \in {x \in DOMAIN tbl : DateOf(x) # day} |-> tbl[r]]

\* UPDATE streaks SET current_streak = 0, longest_streak = 0
ZeroStreaksAll(tbl) ==
  [d \in DOMAIN tbl |-> [tbl[d] EXCEPT !.current_streak = 0,
                                       !.longest_streak = 0]]

\* UPDATE streaks SET current_streak = 0
ZeroStreaks(tbl) ==
  [d \in DOMAIN tbl |-> [tbl[d] EXCEPT !.current_streak = 0]]

----------------------------------------------------------------------------
(* POST /api/drop: the pieces both backends share *)

validModes == {"type", "speak", "draw"}

\* `${mode}_enabled`
ModeFlag(mode) ==
  CASE mode = "type" -> "type_enabled"
    [] mode = "speak" -> "speak_enabled"
    [] mode = "draw" -> "draw_enabled"
    [] OTHER -> "other_enabled"

\* const { mode = 'type', charCount = 0 } = req.body
BodyMode(body) == IF "mode" \in DOMAIN body THEN body.mode ELSE "type"
BodyCharCount(body) ==
  IF "charCount" \in DOMAIN body THEN body.charCount ELSE JNum(0)

\* parseInt(config.drops_per_day || '1')
MaxDropsOf(cfg) == ParseInt(OrDefault(cfg, "drops_per_day", S_1))

\* parseInt(config.max_chars || '200')
MaxCharsOf(cfg) == ParseInt(OrDefault(cfg, "max_chars", S_200))

\* The checks without the daily cap
AdmissionNoCap(cfg, userDrops, mode) ==
  IF mode \notin validModes THEN 400
  ELSE IF ModeFlag(mode) \in DOMAIN cfg /\ cfg[ModeFlag(mode)] = S_false THEN 403
  ELSE 200

\* The checks with the mode checked before the daily cap
AdmissionModeFirst(cfg, userDrops, mode) ==
  IF mode \notin validModes THEN 400
  ELSE IF ModeFlag(mode) \in DOMAIN cfg /\ cfg[ModeFlag(mode)] = S_false THEN 403
  ELSE IF JsGe(Num(userDrops), MaxDropsOf(cfg)) THEN 429
  ELSE 200

\* The checks without the {mode}_enabled flag
AdmissionNoFlag(cfg, userDrops, mode) ==
  IF JsGe(Num(userDrops), MaxDropsOf(cfg)) THEN 429
  ELSE IF mode \notin validModes THEN 400
  ELSE 200

\* The three checks, in the handler's order; 200 when the drop is admitted.
Admission(cfg, userDrops, mode) ==
  IF JsGe(Num(userDrops), MaxDropsOf(cfg)) THEN 429
  ELSE IF mode \notin validModes THEN 400
  ELSE IF ModeFlag(mode) \in DOMAIN cfg /\ cfg[ModeFlag(mode)] = S_false THEN 403
  ELSE 200

\* charCount stored as submitted
ClampCharsNot(cfg, charCount) == ToNumber(charCount)

\* Math.min(charCount, parseInt(config.max_chars || '200'))
ClampChars(cfg, charCount) == MathMin(ToNumber(charCount), MaxCharsOf(cfg))

\* A value of the column char_count INTEGER
SqlNull == [t |-> "null", n |-> Num(0), s |-> <<>>]
SqlInteger(a) == [t |-> "integer", n |-> a, s |-> <<>>]
SqlReal(a) == [t |-> "real", n |-> a, s |-> <<>>]
SqlText(s) == [t |-> "text", n |-> Num(0), s |-> s]

\* What binding a value to the column gives: refused, or the value stored
Refused == [ok |-> FALSE, col |-> SqlNull]
Stored(col) == [ok |-> TRUE, col |-> col]

\* Whether a whole number is a 64-bit integer (at most 9223372036854775807)
InInt64(a) ==
  \/ a.e = 0
  \/ \E p \in {Mantissa(a)} :
       \E mag \in {NumDigits(Abs(p[1])) + p[2]} :
         mag <= 18 \/ (mag = 19 /\ Lead9(p[1]) <= 922337203)

\* better-sqlite3 binds a number as a double, NaN as NULL; the INTEGER
\* affinity of the column stores a whole double as INTEGER.
SqliteNumber(a) ==
  IF a.nan THEN SqlNull
  ELSE IF IsWhole(a) /\ InInt64(a) THEN SqlInteger(a)
  ELSE SqlReal(a)

\* The text up to its first U+0000
RECURSIVE UpToNul(_)
UpToNul(s) ==
  IF s = <<>> \/ Head(s) = NUL THEN <<>>
  ELSE <<Head(s)>> \o UpToNul(Tail(s))

\* The INTEGER affinity on a text: a well-formed integer or real literal,
\* spaces around it allowed, is converted; any other text is stored as it is.
\* The numeral is read as a C string, up to the first U+0000 of the text.
SqliteText(s) ==
  LET t == DropSpace(SkipSpace(UpToNul(s), CSpace), CSpace)
      neg == t # <<>> /\ Head(t) = "-"
      u == IF t # <<>> /\ Head(t) \in {"+", "-"} THEN Tail(t) ELSE t
      d == DecimalLiteral(u)
  IN IF d.ok THEN SqliteNumber(Fin(IF neg THEN -d.n ELSE d.n, d.e))
     ELSE SqlText(s)

\* better-sqlite3 binding a JSON value: it takes numbers, strings and null,
\* and throws a TypeError on a boolean.
SqliteBind(v) ==
  CASE v.t = "null" -> Stored(SqlNull)
    [] v.t = "num" -> Stored(SqliteNumber(v.n))
    [] v.t = "str" -> Stored(SqliteText(v.s))
    [] OTHER -> Refused

\* The digits without the zeros they start with
RECURSIVE SkipZeros(_)
SkipZeros(ds) ==
  IF Len(ds) > 1 /\ Head(ds) = "0" THEN SkipZeros(Tail(ds)) ELSE ds

\* int4in of PostgreSQL: spaces, a sign, decimal digits, spaces, and a value
\* from -2147483648 to 2147483647
Int4In(s) ==
  LET t == DropSpace(SkipSpace(s, CSpace), CSpace)
      neg == t # <<>> /\ Head(t) = "-"
      u == IF t # <<>> /\ Head(t) \in {"+", "-"} THEN Tail(t) ELSE t
      ds == SkipZeros(DigitPrefix(u, 10))
      hi == DigitsValue(SubSeq(ds, 1, 9), 10, 0)
      lo == DigitVal(ds[10])
      fits == \/ Len(ds) <= 9
              \/ /\ Len(ds) = 10
                 /\ hi < 214748364 \/ (hi = 214748364 /\ lo <= (IF neg THEN 8 ELSE 7))
      v == IF Len(ds) <= 9 THEN DigitsValue(ds, 10, 0) ELSE hi
      x == IF Len(ds) <= 9 THEN 0 ELSE 1
  IN IF u = <<>> \/ Len(DigitPrefix(u, 10)) # Len(u) \/ ~fits THEN Refused
     ELSE IF Len(ds) <= 9 \/ lo = 0
     THEN Stored(SqlInteger(Fin(IF neg THEN -v ELSE v, x)))
     ELSE Stored(SqlInteger([nan |-> FALSE, inf |-> 0, e |-> 0,
                             n |-> IF neg THEN (-hi) * 10 - lo
                                   ELSE hi * 10 + lo]))

\* pg sending a JSON value as a parameter of type integer: null as NULL, any
\* other value as its text
PgBind(v) ==
  IF v.t = "null" THEN Stored(SqlNull) ELSE Int4In(JsString(v))

\* The value a request binds to char_count, on a backend
BindChars(be, v) == IF be = "pg" THEN PgBind(v) ELSE SqliteBind(v)

\* A number as a bound value
JNumber(a) == [t |-> "num", s |-> <<>>, n |-> a, b |-> FALSE]

\* The row INSERT INTO drops makes; created_at is the store's clock.
NewDrop(dev, mode, col, t) ==
  [device_hash |-> dev, mode |-> mode, char_count |-> col, created_at |-> t]

\* newStreak without the reset to 1
NewStreakKept(streak, today, yesterday) ==
  IF streak.last_drop_date = yesterday THEN streak.current_streak + 1
  ELSE streak.current_streak

\* newStreak of the streak rule
NewStreak(streak, today, yesterday) ==
  IF streak.last_drop_date = yesterday THEN streak.current_streak + 1
  ELSE IF streak.last_drop_date = today THEN streak.current_streak
  ELSE 1

\* The longest streak left as it was read
LongestKept(newStreak, streak) == streak.longest_streak

\* Math.max(newStreak, streak.longest_streak)
Longest(newStreak, streak) == MathMax(newStreak, streak.longest_streak)

\* The row the UPDATE of the streak rule writes
StreakUpdate(streak, today, yesterday) ==
  LET newStreak == NewStreak(streak, today, yesterday)
  IN [current_streak |-> newStreak,
      longest_streak |-> Longest(newStreak, streak),
      last_drop_date |-> today]

\* The row of an INSERT that leaves the streak columns at their DEFAULT 0
StreakInsertZero(today) ==
  [current_streak |-> 0, longest_streak |-> 0, last_drop_date |-> today]

\* The row the INSERT of the streak rule writes
StreakInsert(today) ==
  [current_streak |-> 1, longest_streak |-> 1, last_drop_date |-> today]

\* The streak rule on the table, for the row read before the write
StreakWrite(tbl, dev, today, yesterday) ==
  IF dev \in DOMAIN tbl
  THEN [tbl EXCEPT ![dev] = StreakUpdate(tbl[dev], today, yesterday)]
  ELSE [d \in (DOMAIN tbl) \cup {dev} |->
          IF d = dev THEN StreakInsert(today) ELSE tbl[d]]

----------------------------------------------------------------------------
(* Requests *)

S_2 == <<"2">>
S_abc == <<"a", "b", "c">>

\* Bodies of POST /api/drop
DropBodies ==
  { [mode |-> "type", charCount |-> JNum(500)],
    [mode |-> "zap", charCount |-> JNum(50)],
    [charCount |-> JStr(<<"5", "0", " ">>)] }

\* Bodies of POST /api/admin/drop
AdminDropBodies ==
  { [mode |-> "type", charCount |-> JNum(500)],
    [mode |-> "type", charCount |-> JBool(TRUE)],
    [mode |-> "type", charCount |-> JStr(S_abc)] }

\* Bodies of PUT /api/admin/config, as Object.entries lists them
CapBodies ==
  { << <<"drops_per_day", JNum(2)>> >>,
    << <<"drops_per_day", JStr(<<"\t", "1">>)>> >>,
    << <<"drops_per_day", JStr(S_abc)>> >> }

FlagBodies ==
  { << <<"type_enabled", JBool(FALSE)>> >>,
    << <<"type_enabled", JBool(TRUE)>> >>,
    << <<"max_chars", JStr(S_abc)>> >>,
    << <<"max_chars", JNum(200)>> >>,
    << <<"drops_per_day", JNum(2)>> >> }

\* A response, as the claims read it: the route, the caller, the HTTP status,
\* the request's `today` and mode, the count in the body, and how many rows
\* of drops and of streaks the request had written when it answered.
Response(op, dev, status, today, mode, count, ins, upd) ==
  [op |-> op, dev |-> dev, status |-> status, today |-> today, mode |-> mode,
   count |-> count, ins |-> ins, upd |-> upd]

----------------------------------------------------------------------------
(* The sqlite backend (src/unnamed/part_000): better-sqlite3 is synchronous,
   a handler runs from its first statement to its answer with no other
   request in between, so a handler is one step.  e1 and e2 are the times
   that pass inside an admitted POST /api/drop before the store runs the
   INSERT and before Date.now() is read for `yesterday`. *)

PostDrop(dev, body) ==
  LET deviceHash == dev
      today == Today(now)
      mode == BodyMode(body)
      userDrops == CountDevice(drops, deviceHash, today)
      status == Admission(config, userDrops, mode)
  IN /\ backend = "sqlite"
     /\ IF status # 200
        THEN /\ last' = Response("drop", dev, status, today, mode, 0, 0, 0)
             /\ UNCHANGED <<now, drops, streaks>>
        ELSE \E cc \in {ClampChars(config, BodyCharCount(body))} :
             \E e1 \in Elapsed, e2 \in Elapsed :
               LET tInsert == now + e1
                   tStreak == tInsert + e2
               IN /\ now' = tStreak
                  /\ drops' = InsertRow(drops,
                                NewDrop(deviceHash, mode,
                                        SqliteBind(JNumber(cc)).col, tInsert))
                  /\ streaks' = StreakWrite(streaks, deviceHash, today,
                                            Yesterday(tStreak))
                  /\ last' = Response("drop", dev, 200, today, mode,
                                      CountDay(drops', today), 1, 1)
     /\ UNCHANGED <<backend, tables, config, reqs>>

GetCount ==
  /\ backend = "sqlite"
  /\ last' = Response("count", "", 200, Today(now), "", CountDay(drops, Today(now)), 0, 0)
  /\ UNCHANGED <<backend, tables, now, drops, streaks, config, reqs>>

\* requireAdmin turning a request away
Unauthorized ==
  /\ last' = Response("admin", "", 401, Today(now), "", 0, 0, 0)
  /\ UNCHANGED <<backend, tables, now, drops, streaks, config, reqs>>

\* POST /api/admin/drop, on either backend: one INSERT, with charCount
\* bound as the body gives it, unclamped and unconverted.  A value the store
\* refuses, or an INSERT into a table not yet created, is answered 500 and
\* no row is made.
AdminDrop(body) ==
  LET bound == BindChars(backend, BodyCharCount(body))
  IN /\ IF tables /\ bound.ok
        THEN /\ drops' = InsertRow(drops, NewDrop(AdminHash, BodyMode(body),
                                                  bound.col, now))
             /\ last' = Response("admin_drop", AdminHash, 200, Today(now),
                                 BodyMode(body), 0, 1, 0)
        ELSE /\ last' = Response("admin_drop", AdminHash, 500, Today(now),
                                 BodyMode(body), 0, 0, 0)
             /\ UNCHANGED drops
     /\ UNCHANGED <<backend, tables, now, streaks, config, reqs>>

\* Whether pg takes the text as a parameter: it rejects U+0000
PgTextAccepts(s) == \A i \in 1..Len(s) : s[i] # NUL

\* pg: one INSERT ... ON CONFLICT per entry, each its own statement; the
\* first one the store rejects ends the loop and keeps the earlier ones.
RECURSIVE PgUpsertMany(_, _)
PgUpsertMany(cfg, updates) ==
  IF updates = <<>> THEN [cfg |-> cfg, ok |-> TRUE]
  ELSE LET key == Head(updates)[1]
           value == JsString(Head(updates)[2])
       IN IF PgTextAccepts(value)
          THEN PgUpsertMany(Upsert(cfg, key, value), Tail(updates))
          ELSE [cfg |-> cfg, ok |-> FALSE]

\* sqlite: every INSERT OR REPLACE inside one db.transaction
RECURSIVE SqliteUpsertMany(_, _)
SqliteUpsertMany(cfg, updates) ==
  IF updates = <<>> THEN [cfg |-> cfg, ok |-> TRUE]
  ELSE SqliteUpsertMany(
         Upsert(cfg, Head(updates)[1], JsString(Head(updates)[2])),
         Tail(updates))

\* The loop of PUT /api/admin/config on a backend, run with no other
\* statement in between
UpsertMany(be, cfg, updates) ==
  IF be = "pg" THEN PgUpsertMany(cfg, updates)
  ELSE SqliteUpsertMany(cfg, updates)

\* sqlite: PUT /api/admin/config
PutConfig(updates) ==
  LET r == SqliteUpsertMany(config, updates)
  IN /\ backend = "sqlite"
     /\ config' = r.cfg
     /\ last' = Response("put_config", "", IF r.ok THEN 200 ELSE 500,
                         Today(now), "", 0, 0, 0)
     /\ UNCHANGED <<backend, tables, now, drops, streaks, reqs>>

ResetStreaks ==
  /\ IF tables
     THEN /\ streaks' = ZeroStreaks(streaks)
          /\ last' = Response("reset_streaks", "", 200, Today(now), "", 0, 0, 0)
     ELSE /\ last' = Response("reset_streaks", "", 500, Today(now), "", 0, 0, 0)
          /\ UNCHANGED streaks
  /\ UNCHANGED <<backend, tables, now, drops, config, reqs>>

\* sqlite: POST /api/admin/reset-counter
ResetCounter ==
  /\ backend = "sqlite"
  /\ drops' = DeleteDay(drops, Today(now))
  /\ last' = Response("reset_counter", "", 200, Today(now), "", 0, 0, 0)
  /\ UNCHANGED <<backend, tables, now, streaks, config, reqs>>

\* The seeding loop of process start, run to its end
RECURSIVE SeedAll(_, _)
SeedAll(cfg, entries) ==
  IF entries = <<>> THEN cfg
  ELSE SeedAll(InsertIfAbsent(cfg, Head(entries)[1], Head(entries)[2]),
               Tail(entries))

\* Every default key is in the table
Seeded == \A i \in 1..Len(defaultEntries) : defaultEntries[i][1] \in DOMAIN config

\* sqlite: the process starts (or restarts); CREATE TABLE IF NOT EXISTS and
\* the seeding loop are synchronous and end before the server listens.
Start ==
  /\ backend = "sqlite"
  /\ tables' = TRUE
  /\ config' = SeedAll(config, defaultEntries)
  /\ last' = Response("start", "", 0, Today(now), "", 0, 0, 0)
  /\ UNCHANGED <<backend, now, drops, streaks, reqs>>

\* sqlite: the process is killed during a start.  db.exec and each INSERT OR
\* IGNORE of the seeding loop commit on their own, with no transaction
\* around them, so what ran before the kill stays: at n = -1 the kill falls
\* inside db.exec, at n >= 0 after db.exec and the loop's first n INSERTs;
\* after the last INSERT the process is killed before it listens.
StartKilled(n) ==
  /\ backend = "sqlite"
  /\ tables' = (tables \/ n >= 0)
  /\ config' = IF n < 0 THEN config
               ELSE SeedAll(config, SubSeq(defaultEntries, 1, n))
  /\ last' = Response("crash", "", 0, Today(now), "", 0, 0, 0)
  /\ UNCHANGED <<backend, now, drops, streaks, reqs>>

\* The statements of the start a kill can follow, the loop's last INSERT
\* included
KillPoints == -1..Len(defaultEntries)

\* sqlite: the process is killed inside an admitted POST /api/drop.  The
\* INSERT INTO drops and the statement on streaks commit on their own: a
\* kill after the first (wrote = 1) leaves the row of drops with the row of
\* streaks as it was, a kill after the second (wrote = 2) leaves both and
\* no answer is sent.
PostDropKilled(dev, body, wrote) ==
  LET deviceHash == dev
      today == Today(now)
      mode == BodyMode(body)
      userDrops == CountDevice(drops, deviceHash, today)
  IN /\ backend = "sqlite"
     /\ Admission(config, userDrops, mode) = 200
     /\ \E cc \in {ClampChars(config, BodyCharCount(body))} :
        \E e1 \in Elapsed, e2 \in Elapsed :
          LET tInsert == now + e1
              tStreak == tInsert + e2
          IN /\ now' = IF wrote = 1 THEN tInsert ELSE tStreak
             /\ drops' = InsertRow(drops,
                           NewDrop(deviceHash, mode,
                                   SqliteBind(JNumber(cc)).col, tInsert))
             /\ streaks' = IF wrote = 1 THEN streaks
                           ELSE StreakWrite(streaks, deviceHash, today,
                                            Yesterday(tStreak))
     /\ last' = Response("crash", dev, 0, today, mode, 0, 1, wrote - 1)
     /\ UNCHANGED <<backend, tables, config, reqs>>

\* Time passing between requests
Tick ==
  /\ now' = now + MsPerDay
  /\ UNCHANGED <<backend, tables, drops, streaks, config, reqs, last>>

----------------------------------------------------------------------------
(* The pg backend (src/server.js): a handler runs up to its next await, the
   awaited query runs in the store at some later step, and the handler goes
   on from its result.  A frame holds what the handler keeps across awaits.
   The server listens from the start of the process, before initDB has
   created the tables: until then the first query of a request fails and the
   request is answered 500. *)

IdleSlot ==
  [pc |-> "idle", dev |-> "", today |-> 0, mode |-> "", charCount |-> JNum(0),
   cfg |-> <<>>, cc |-> Num(0), had |-> FALSE, row |-> StreakInsert(0),
   updates |-> <<>>, ins |-> 0]

\* The request arrives: deviceHash, today, mode and charCount are captured
\* and the config query is sent.
DropBegin(s, dev, body) ==
  /\ backend = "pg"
  /\ reqs[s].pc = "idle"
  /\ reqs' = [reqs EXCEPT ![s] =
       [IdleSlot EXCEPT !.pc = "config", !.dev = dev, !.today = Today(now),
                        !.mode = BodyMode(body),
                        !.charCount = BodyCharCount(body)]]
  /\ UNCHANGED <<backend, tables, now, drops, streaks, config, last>>

\* SELECT key, value FROM config
DropConfig(s) ==
  LET f == reqs[s]
  IN /\ f.pc = "config"
     /\ IF tables
        THEN /\ reqs' = [reqs EXCEPT ![s].pc = "count", ![s].cfg = config]
             /\ UNCHANGED last
        ELSE /\ reqs' = [reqs EXCEPT ![s] = IdleSlot]
             /\ last' = Response("drop", f.dev, 500, f.today, f.mode, 0, 0, 0)
     /\ UNCHANGED <<backend, tables, now, drops, streaks, config>>

\* The count query, then the three checks; an admitted drop sends its INSERT.
DropCount(s) ==
  LET f == reqs[s]
      userDrops == CountDevice(drops, f.dev, f.today)
      status == Admission(f.cfg, userDrops, f.mode)
  IN /\ f.pc = "count"
     /\ IF status # 200
        THEN /\ reqs' = [reqs EXCEPT ![s] = IdleSlot]
             /\ last' = Response("drop", f.dev, status, f.today, f.mode, 0, 0, 0)
        ELSE /\ reqs' = [reqs EXCEPT ![s].pc = "insert", ![s].cfg = <<>>,
                                     ![s].charCount = JNum(0),
                                     ![s].cc = ClampChars(f.cfg, f.charCount)]
             /\ UNCHANGED last
     /\ UNCHANGED <<backend, tables, now, drops, streaks, config>>

\* INSERT INTO drops, then the streak query is sent.
DropInsert(s) ==
  LET f == reqs[s]
      bound == PgBind(JNumber(f.cc))
  IN /\ f.pc = "insert"
     /\ IF bound.ok
        THEN /\ drops' = InsertRow(drops, NewDrop(f.dev, f.mode, bound.col, now))
             /\ reqs' = [reqs EXCEPT ![s].pc = "select", ![s].cc = Num(0),
                                     ![s].ins = 1]
             /\ UNCHANGED last
        ELSE /\ reqs' = [reqs EXCEPT ![s] = IdleSlot]
             /\ last' = Response("drop", f.dev, 500, f.today, f.mode, 0, 0, 0)
             /\ UNCHANGED drops
     /\ UNCHANGED <<backend, tables, now, streaks, config>>

\* SELECT * FROM streaks runs in the store.
DropSelect(s) ==
  LET f == reqs[s]
      had == f.dev \in DOMAIN streaks
  IN /\ f.pc = "select"
     /\ reqs' = [reqs EXCEPT ![s].pc = "streak", ![s].had = had,
                   ![s].row = IF had THEN streaks[f.dev] ELSE StreakInsert(0)]
     /\ UNCHANGED <<backend, tables, now, drops, streaks, config, last>>

\* The handler goes on from the SELECT: yesterday is read off the clock, the
\* row to write is computed from the row read, and the UPDATE or the INSERT
\* is sent.
DropNewStreak(s) ==
  LET f == reqs[s]
  IN /\ f.pc = "streak"
     /\ reqs' = [reqs EXCEPT ![s].pc = "write",
                   ![s].row = IF f.had
                              THEN StreakUpdate(f.row, f.today, Yesterday(now))
                              ELSE StreakInsert(f.today)]
     /\ UNCHANGED <<backend, tables, now, drops, streaks, config, last>>

\* UPDATE streaks ... WHERE device_hash, or INSERT INTO streaks, which the
\* primary key rejects when the row has appeared since the SELECT.
DropWrite(s) ==
  LET f == reqs[s]
  IN /\ f.pc = "write"
     /\ IF f.had
        THEN /\ streaks' = [streaks EXCEPT ![f.dev] = f.row]
             /\ reqs' = [reqs EXCEPT ![s].pc = "total",
                                     ![s].row = StreakInsert(0), ![s].had = FALSE]
             /\ UNCHANGED last
        ELSE IF f.dev \in DOMAIN streaks
        THEN /\ reqs' = [reqs EXCEPT ![s] = IdleSlot]
             /\ last' = Response("drop", f.dev, 500, f.today, f.mode, 0,
                                 f.ins, 0)
             /\ UNCHANGED streaks
        ELSE /\ streaks' = [d \in (DOMAIN streaks) \cup {f.dev} |->
                              IF d = f.dev THEN f.row ELSE streaks[d]]
             /\ reqs' = [reqs EXCEPT ![s].pc = "total",
                                     ![s].row = StreakInsert(0)]
             /\ UNCHANGED last
     /\ UNCHANGED <<backend, tables, now, drops, config>>

\* The count of the day for the body, and the answer.
DropTotal(s) ==
  LET f == reqs[s]
  IN /\ f.pc = "total"
     /\ reqs' = [reqs EXCEPT ![s] = IdleSlot]
     /\ last' = Response("drop", f.dev, 200, f.today, f.mode,
                         CountDay(drops, f.today), f.ins, 1)
     /\ UNCHANGED <<backend, tables, now, drops, streaks, config>>

\* pg: the process starts (or restarts): initDB is called and not awaited,
\* and the server listens while initDB connects, creates the tables and
\* seeds them.
SeedBegin(s) ==
  /\ backend = "pg"
  /\ \A t \in Slots : reqs[t].pc = "idle"
  /\ reqs' = [reqs EXCEPT ![s] = [IdleSlot EXCEPT !.pc = "create"]]
  /\ UNCHANGED <<backend, tables, now, drops, streaks, config, last>>

\* CREATE TABLE IF NOT EXISTS drops, streaks, config; the seeding loop sends
\* its first INSERT.
SeedCreate(s) ==
  /\ reqs[s].pc = "create"
  /\ tables' = TRUE
  /\ reqs' = [reqs EXCEPT ![s].pc = "seed", ![s].updates = defaultEntries]
  /\ UNCHANGED <<backend, now, drops, streaks, config, last>>

\* One INSERT ... ON CONFLICT DO NOTHING of the seeding loop
SeedNext(s) ==
  LET f == reqs[s]
  IN /\ f.pc = "seed"
     /\ config' = InsertIfAbsent(config, Head(f.updates)[1], Head(f.updates)[2])
     /\ IF Len(f.updates) = 1
        THEN /\ reqs' = [reqs EXCEPT ![s] = IdleSlot]
             /\ last' = Response("start", "", 0, Today(now), "", 0, 0, 0)
        ELSE /\ reqs' = [reqs EXCEPT ![s].updates = Tail(f.updates)]
             /\ UNCHANGED last
     /\ UNCHANGED <<backend, tables, now, drops, streaks>>

\* pg: the process is killed while seeding or serving: what is in flight is
\* lost, the statements already run stay
Crash(s) ==
  /\ reqs[s].pc # "idle"
  /\ reqs' = [t \in Slots |-> IdleSlot]
  /\ last' = Response("crash", "", 0, Today(now), "", 0, 0, 0)
  /\ UNCHANGED <<backend, tables, now, drops, streaks, config>>

\* GET /api/count arrives: today is read and the count query is sent.
CountBegin(s) ==
  /\ backend = "pg"
  /\ reqs[s].pc = "idle"
  /\ reqs' = [reqs EXCEPT ![s] =
       [IdleSlot EXCEPT !.pc = "count_day", !.today = Today(now)]]
  /\ UNCHANGED <<backend, tables, now, drops, streaks, config, last>>

\* SELECT COUNT(*) of the day read before, and the answer
CountQuery(s) ==
  LET f == reqs[s]
  IN /\ f.pc = "count_day"
     /\ reqs' = [reqs EXCEPT ![s] = IdleSlot]
     /\ last' = IF tables
                THEN Response("count", "", 200, f.today, "",
                              CountDay(drops, f.today), 0, 0)
                ELSE Response("count", "", 500, f.today, "", 0, 0, 0)
     /\ UNCHANGED <<backend, tables, now, drops, streaks, config>>

\* POST /api/admin/reset-counter arrives: today is read and the DELETE is
\* sent.
ResetBegin(s) ==
  /\ backend = "pg"
  /\ reqs[s].pc = "idle"
  /\ reqs' = [reqs EXCEPT ![s] =
       [IdleSlot EXCEPT !.pc = "delete", !.today = Today(now)]]
  /\ UNCHANGED <<backend, tables, now, drops, streaks, config, last>>

\* DELETE FROM drops of the day read before, and the answer
ResetDelete(s) ==
  LET f == reqs[s]
  IN /\ f.pc = "delete"
     /\ reqs' = [reqs EXCEPT ![s] = IdleSlot]
     /\ IF tables
        THEN /\ drops' = DeleteDay(drops, f.today)
             /\ last' = Response("reset_counter", "", 200, f.today, "", 0, 0, 0)
        ELSE /\ last' = Response("reset_counter", "", 500, f.today, "", 0, 0, 0)
             /\ UNCHANGED drops
     /\ UNCHANGED <<backend, tables, now, streaks, config>>

\* PUT /api/admin/config arrives; its first upsert is sent.
PutBegin(s, updates) ==
  /\ backend = "pg"
  /\ reqs[s].pc = "idle"
  /\ IF updates = <<>>
     THEN /\ last' = Response("put_config", "", 200, Today(now), "", 0, 0, 0)
          /\ UNCHANGED reqs
     ELSE /\ reqs' = [reqs EXCEPT ![s] =
               [IdleSlot EXCEPT !.pc = "put", !.updates = updates]]
          /\ UNCHANGED last
  /\ UNCHANGED <<backend, tables, now, drops, streaks, config>>

\* One upsert of the loop runs; the loop goes on, or answers.
PutNext(s) ==
  LET f == reqs[s]
      key == Head(f.updates)[1]
      value == JsString(Head(f.updates)[2])
  IN /\ f.pc = "put"
     /\ IF ~tables \/ ~PgTextAccepts(value)
        THEN /\ reqs' = [reqs EXCEPT ![s] = IdleSlot]
             /\ last' = Response("put_config", "", 500, Today(now), "", 0, 0, 0)
             /\ UNCHANGED config
        ELSE /\ config' = Upsert(config, key, value)
             /\ IF Len(f.updates) = 1
                THEN /\ reqs' = [reqs EXCEPT ![s] = IdleSlot]
                     /\ last' = Response("put_config", "", 200, Today(now),
                                         "", 0, 0, 0)
                ELSE /\ reqs' = [reqs EXCEPT ![s].updates = Tail(f.updates)]
                     /\ UNCHANGED last
     /\ UNCHANGED <<backend, tables, now, drops, streaks>>

----------------------------------------------------------------------------
(* History: the successful drops of a device, counted from the responses *)

NoHist == [sday |-> -1, n |-> 0, m |-> 0]

\* After a successful drop whose `today` is today: n counts the successes
\* with this `today` (it stops counting at MaxSucc), m those since the day's
\* last reset-counter.
Succeeded(h, today) ==
  [sday |-> today,
   n |-> IF h.sday # today THEN 1 ELSE IF h.n < MaxSucc THEN h.n + 1 ELSE h.n,
   m |-> IF h.sday # today THEN 1 ELSE IF h.m < MaxSucc THEN h.m + 1 ELSE h.m]

\* After a reset-counter whose `today` is today
CounterReset(hs, today) ==
  [d \in DOMAIN hs |->
     IF hs[d].sday = today THEN [hs[d] EXCEPT !.m = 0] ELSE hs[d]]

\* This step sent the response last'
Responded ==
  \/ last' # last
  \/ \E s \in Slots : reqs[s].pc # "idle" /\ reqs'[s].pc = "idle"
  \/ /\ reqs' = reqs
     /\ drops' # drops \/ streaks' # streaks \/ config' # config

Track ==
  hist' =
    IF Responded /\ last'.op = "drop" /\ last'.status = 200
    THEN [hist EXCEPT ![last'.dev] = Succeeded(@, last'.today)]
    ELSE IF Responded /\ last'.op = "reset_counter"
    THEN CounterReset(hist, last'.today)
    ELSE hist

\* The bounds of a run: the rows of drops and the days of the clock
Within(maxRows, maxDay) == CountAll(drops) <= maxRows /\ Today(now) <= maxDay

----------------------------------------------------------------------------
(* Specifications *)


InitTables ==
  /\ tables = TRUE
  /\ now = 0
  /\ drops = EmptyTable
  /\ streaks = [d \in {} |-> StreakInsert(0)]
  /\ config = defaults
  /\ reqs = [s \in Slots |-> IdleSlot]
  /\ last = Response("", "", 0, 0, "", 0, 0, 0)
  /\ hist = [d \in Devices |-> NoHist]

Init ==
  /\ backend \in {"sqlite", "pg"}
  /\ InitTables

\* No request is in flight
Alone == \A t \in Slots : reqs[t].pc = "idle"

\* The frame of the pg backend when requests come one at a time
SeqSlot == CHOOSE s \in Slots : \A t \in Slots : s <= t

\* Spec: requests one at a time, each sent after the answer to the one
\* before; the daily cap.  Every route that writes, with the config bodies
\* that set drops_per_day; the history is kept.  On sqlite a handler is one
\* step, on pg it runs await by await and the clock may move in between.
CapStep(A) == A /\ Within(MaxRows, MaxDay)' /\ Track

CapBodiesOfDrop ==
  { [mode |-> "type", charCount |-> JNum(500)],
    [mode |-> "zap", charCount |-> JNum(50)] }

Next ==
  \/ \E dev \in Devices, body \in CapBodiesOfDrop :
       CapStep(PostDrop(dev, body))
  \/ \E dev \in Devices, body \in CapBodiesOfDrop :
       CapStep(Alone /\ DropBegin(SeqSlot, dev, body))
  \/ CapStep(DropConfig(SeqSlot))
  \/ CapStep(DropCount(SeqSlot))
  \/ CapStep(DropInsert(SeqSlot))
  \/ CapStep(DropSelect(SeqSlot))
  \/ CapStep(DropNewStreak(SeqSlot))
  \/ CapStep(DropWrite(SeqSlot))
  \/ CapStep(DropTotal(SeqSlot))
  \/ \E body \in AdminDropBodies : CapStep(Alone /\ AdminDrop(body))
  \/ \E updates \in CapBodies : CapStep(PutConfig(updates))
  \/ \E updates \in CapBodies : CapStep(Alone /\ PutBegin(SeqSlot, updates))
  \/ CapStep(PutNext(SeqSlot))
  \/ CapStep(Alone /\ ResetStreaks)
  \/ CapStep(ResetCounter)
  \/ CapStep(Alone /\ ResetBegin(SeqSlot))
  \/ CapStep(ResetDelete(SeqSlot))
  \/ CapStep(Tick)

Spec == Init /\ [][Next]_vars

\* SpecAdm: requests one at a time; the admission checks and the clamp.
\* Every route, with the config bodies that set the mode flag and max_chars.
AdmStep(A) == A /\ Within(AdmMaxRows, AdmMaxDay)' /\ UNCHANGED hist

NextAdm ==
  \/ \E dev \in Devices, body \in DropBodies :
       AdmStep(PostDrop(dev, body))
  \/ \E dev \in Devices, body \in DropBodies :
       AdmStep(Alone /\ DropBegin(SeqSlot, dev, body))
  \/ AdmStep(DropConfig(SeqSlot))
  \/ AdmStep(DropCount(SeqSlot))
  \/ AdmStep(DropInsert(SeqSlot))
  \/ AdmStep(DropSelect(SeqSlot))
  \/ AdmStep(DropNewStreak(SeqSlot))
  \/ AdmStep(DropWrite(SeqSlot))
  \/ AdmStep(DropTotal(SeqSlot))
  \/ AdmStep(GetCount)
  \/ AdmStep(Alone /\ CountBegin(SeqSlot))
  \/ AdmStep(CountQuery(SeqSlot))
  \/ AdmStep(Alone /\ Unauthorized)
  \/ \E body \in AdminDropBodies : AdmStep(Alone /\ AdminDrop(body))
  \/ \E updates \in FlagBodies : AdmStep(PutConfig(updates))
  \/ \E updates \in FlagBodies : AdmStep(Alone /\ PutBegin(SeqSlot, updates))
  \/ AdmStep(PutNext(SeqSlot))
  \/ AdmStep(Alone /\ ResetStreaks)
  \/ AdmStep(ResetCounter)
  \/ AdmStep(Alone /\ ResetBegin(SeqSlot))
  \/ AdmStep(ResetDelete(SeqSlot))
  \/ AdmStep(Tick)

SpecAdm == Init /\ [][NextAdm]_vars

\* SpecPg: the pg backend with requests in flight together.
PgStep(A) == A /\ Within(PgMaxRows, PgMaxDay)' /\ Track

PgDropBodies == { [mode |-> "type", charCount |-> JNum(500)] }

PgConfigBodies ==
  { << <<"drops_per_day", JNum(2)>>, <<"type_enabled", JBool(FALSE)>> >> }

InitPg ==
  /\ backend = "pg"
  /\ InitTables

NextPg ==
  \/ \E s \in Slots, dev \in Devices, body \in PgDropBodies :
       PgStep(DropBegin(s, dev, body))
  \/ \E s \in Slots : PgStep(DropConfig(s))
  \/ \E s \in Slots : PgStep(DropCount(s))
  \/ \E s \in Slots : PgStep(DropInsert(s))
  \/ \E s \in Slots : PgStep(DropSelect(s))
  \/ \E s \in Slots : PgStep(DropNewStreak(s))
  \/ \E s \in Slots : PgStep(DropWrite(s))
  \/ \E s \in Slots : PgStep(DropTotal(s))
  \/ \E s \in Slots, updates \in PgConfigBodies : PgStep(PutBegin(s, updates))
  \/ \E s \in Slots : PgStep(PutNext(s))
  \/ \E s \in Slots : PgStep(CountBegin(s))
  \/ \E s \in Slots : PgStep(CountQuery(s))
  \/ PgStep(ResetStreaks)
  \/ \E s \in Slots : PgStep(ResetBegin(s))
  \/ \E s \in Slots : PgStep(ResetDelete(s))
  \/ PgStep(Tick)

SpecPg == InitPg /\ [][NextPg]_vars

\* SpecStreak: requests one at a time; the streak rule over several days,
\* under the default config.
StreakStep(A) == A /\ Within(StrMaxRows, StrMaxDay)' /\ UNCHANGED hist

NextStreak ==
  \/ \E dev \in Devices, body \in PgDropBodies :
       StreakStep(PostDrop(dev, body))
  \/ \E dev \in Devices, body \in PgDropBodies :
       StreakStep(Alone /\ DropBegin(SeqSlot, dev, body))
  \/ StreakStep(DropConfig(SeqSlot))
  \/ StreakStep(DropCount(SeqSlot))
  \/ StreakStep(DropInsert(SeqSlot))
  \/ StreakStep(DropSelect(SeqSlot))
  \/ StreakStep(DropNewStreak(SeqSlot))
  \/ StreakStep(DropWrite(SeqSlot))
  \/ StreakStep(DropTotal(SeqSlot))
  \/ StreakStep(Alone /\ ResetStreaks)
  \/ StreakStep(ResetCounter)
  \/ StreakStep(Alone /\ ResetBegin(SeqSlot))
  \/ StreakStep(ResetDelete(SeqSlot))
  \/ StreakStep(Tick)

SpecStreak == Init /\ [][NextStreak]_vars

\* SpecCfg: the config table from a new database on: process starts, kills
\* and restarts, and requests once the server listens.  On pg the server
\* listens while initDB runs: a request falls before the CREATE TABLE, or
\* among the seeding loop's statements.  On sqlite the server listens after
\* the seeding loop, so a table the loop was killed in is seen by the next
\* start only.  Every route is served; POST /api/drop one at a time.
\* A kill inside a sqlite handler other than POST /api/drop leaves the
\* database as it was or as the handler leaves it: each is one statement or
\* one transaction.
Serving ==
  \/ Seeded
  \/ backend = "pg" /\ \E s \in Slots : reqs[s].pc \in {"create", "seed"}

CfgStep(A) == A /\ Within(CfgMaxRows, 0)' /\ UNCHANGED hist

CfgBodies ==
  { << <<"max_chars", JNum(100)>>, <<"theme", JStr(<<"x">>)>> >>,
    << <<"max_chars", JStr(S_abc)>>, <<"announcement", JStr(<<NUL>>)>> >>,
    << <<"drops_per_day", JNull>> >> }

InitCfg ==
  /\ backend \in {"sqlite", "pg"}
  /\ tables = FALSE
  /\ now = 0
  /\ drops = EmptyTable
  /\ streaks = [d \in {} |-> StreakInsert(0)]
  /\ config = [k \in {} |-> S_empty]
  /\ reqs = [s \in Slots |-> IdleSlot]
  /\ last = Response("", "", 0, 0, "", 0, 0, 0)
  /\ hist = [d \in Devices |-> NoHist]

NextCfg ==
  \/ CfgStep(Start)
  \/ \E n \in KillPoints : CfgStep(StartKilled(n))
  \/ \E s \in Slots : CfgStep(SeedBegin(s))
  \/ \E s \in Slots : CfgStep(SeedCreate(s))
  \/ \E s \in Slots : CfgStep(SeedNext(s))
  \/ \E s \in Slots : CfgStep(Crash(s))
  \/ \E updates \in CfgBodies : CfgStep(Serving /\ PutConfig(updates))
  \/ \E s \in Slots, updates \in CfgBodies :
       CfgStep(Serving /\ PutBegin(s, updates))
  \/ \E s \in Slots : CfgStep(PutNext(s))
  \/ \E dev \in Devices, body \in PgDropBodies :
       CfgStep(Serving /\ PostDrop(dev, body))
  \/ \E dev \in Devices, body \in PgDropBodies, wrote \in {1, 2} :
       CfgStep(Serving /\ PostDropKilled(dev, body, wrote))
  \/ \E dev \in Devices, body \in PgDropBodies :
       CfgStep(Serving /\ DropBegin(SeqSlot, dev, body))
  \/ CfgStep(DropConfig(SeqSlot))
  \/ CfgStep(DropCount(SeqSlot))
  \/ CfgStep(DropInsert(SeqSlot))
  \/ CfgStep(DropSelect(SeqSlot))
  \/ CfgStep(DropNewStreak(SeqSlot))
  \/ CfgStep(DropWrite(SeqSlot))
  \/ CfgStep(DropTotal(SeqSlot))
  \/ CfgStep(Serving /\ GetCount)
  \/ \E s \in Slots : CfgStep(Serving /\ CountBegin(s))
  \/ \E s \in Slots : CfgStep(CountQuery(s))
  \/ \E body \in PgDropBodies : CfgStep(Serving /\ AdminDrop(body))
  \/ CfgStep(Serving /\ ResetStreaks)
  \/ CfgStep(Serving /\ ResetCounter)
  \/ \E s \in Slots : CfgStep(Serving /\ ResetBegin(s))
  \/ \E s \in Slots : CfgStep(ResetDelete(s))

SpecCfg == InitCfg /\ [][NextCfg]_vars

----------------------------------------------------------------------------
(* Claims *)

\* The days that have a row in drops
DaysOf(tbl) == {DateOf(r) : r \in DOMAIN tbl}

\* drops_per_day as POST /api/drop reads it now
CapNow == MaxDropsOf(config)

\* C1 as stated: with drops_per_day = N, after a successful drop the device
\* has succeeded at most N times with that `today`, and an attempt that fails
\* after N successes of the day fails with 429.
C1_Original ==
  (last.op = "drop" /\ ~CapNow.nan /\ hist[last.dev].sday = last.today) =>
     /\ last.status = 200 => hist[last.dev].n <= CapNow.n
     /\ (last.status # 200 /\ hist[last.dev].n >= CapNow.n) => last.status = 429

\* C1, amended: with drops_per_day = N and requests processed one at a time,
\* a device succeeds at most N times within one calendar day since that day's
\* last reset-counter, and every attempt made after N such successes is
\* rejected with 429.
C1_CapSinceReset ==
  (last.op = "drop" /\ ~CapNow.nan /\ hist[last.dev].sday = last.today) =>
     /\ last.status = 200 => hist[last.dev].m <= CapNow.n
     /\ (last.status # 200 /\ hist[last.dev].m >= CapNow.n) => last.status = 429

C1_Witness ==
  /\ last.op = "drop" /\ last.status = 429 /\ last.mode = "zap"
  /\ CapNow = Num(2)
  /\ hist[last.dev].sday = last.today /\ hist[last.dev].m = 2

\* C2 as stated: every device other than admin has, for every day, at most
\* the current drops_per_day rows in drops.
C2_Original ==
  \A dev \in Devices, day \in DaysOf(drops) :
    ~CapNow.nan => CountDevice(drops, dev, day) <= CapNow.n

\* C2, amended: with requests processed one at a time, whenever the number of
\* Drop rows of a (deviceHash, day) other than admin's grows, it grows to at
\* most the drops_per_day in force at that moment (when that parses as a
\* number).
C2_GrowsWithinCap ==
  [][\A dev \in Devices, day \in DaysOf(drops') :
       (CountDevice(drops', dev, day) > CountDevice(drops, dev, day)
          /\ ~CapNow.nan)
       => CountDevice(drops', dev, day) <= CapNow.n]_vars

C2_Witness ==
  /\ CapNow = Num(2)
  /\ \E day \in DaysOf(drops) :
       /\ CountDevice(drops, "d1", day) = 2
       /\ CountDevice(drops, AdminHash, day) = 1
  /\ last.op = "drop" /\ last.status = 200

\* C3: in the pg backend two POST /api/drop of one device in flight together
\* can both pass the count check and both succeed, leaving drops_per_day + 1
\* rows of the day; with NumSlots requests in flight a device's rows of a day
\* never exceed drops_per_day by more than NumSlots - 1.
C3_RaceExceedsByOne ==
  \A dev \in Devices, day \in DaysOf(drops) :
    ~CapNow.nan => CountDevice(drops, dev, day) <= CapNow.n + NumSlots - 1

C3_Witness ==
  /\ config = defaults
  /\ \A s \in Slots : reqs[s].pc = "idle"
  /\ last.op = "drop" /\ last.status = 200 /\ last.count = 2
  /\ hist[last.dev].sday = last.today /\ hist[last.dev].m = 2
  /\ CountDevice(drops, last.dev, last.today) = 2

\* C4: under any interleaving of drop, reset-streaks and reset-counter
\* requests every row of streaks has longest_streak >= current_streak.
C4_LongestAtLeastCurrent ==
  \A dev \in DOMAIN streaks :
    streaks[dev].longest_streak >= streaks[dev].current_streak

C4_Witness ==
  /\ last.op = "drop" /\ last.status = 200
  /\ last.dev \in DOMAIN streaks
  /\ streaks[last.dev].current_streak = 0
  /\ streaks[last.dev].longest_streak = 2

\* C5 as stated: no step of any request writes a longest_streak smaller than
\* the one stored just before the write.
C5_Claim ==
  [][\A dev \in DOMAIN streaks :
       /\ dev \in DOMAIN streaks'
       /\ streaks'[dev].longest_streak >= streaks[dev].longest_streak]_vars

\* The rows this step added to drops
Added ==
  {r \in DOMAIN drops' : r \notin DOMAIN drops \/ drops'[r] > drops[r]}

\* This step answered a POST /api/drop
DropResponded == Responded /\ last'.op = "drop"

\* The caller of the answered drop had reached the cap when it asked
CapReached ==
  JsGe(Num(CountDevice(drops, last'.dev, last'.today)), MaxDropsOf(config))

\* C6 as stated: a successful drop leaves lastDropDate at the calendar date
\* of its Drop row's createdAt (read on the step of a sqlite handler, which
\* makes the row and writes the streak together), and no step moves a
\* lastDropDate back.
C6_Claim ==
  [][/\ \A r \in Added :
          (backend = "sqlite" /\ r.device_hash \in Devices) =>
            /\ r.device_hash \in DOMAIN streaks'
            /\ streaks'[r.device_hash].last_drop_date = DateOf(r)
     /\ \A dev \in DOMAIN streaks :
          /\ dev \in DOMAIN streaks'
          /\ streaks'[dev].last_drop_date >= streaks[dev].last_drop_date]_vars

\* C7 as stated: a POST /api/drop that answers a failure has written nothing
\* to drops and streaks, and one that answers success has inserted one row of
\* drops and written one row of streaks.
C7_Claim ==
  last.op = "drop" =>
    IF last.status = 200 THEN last.ins = 1 /\ last.upd = 1
    ELSE last.ins = 0 /\ last.upd = 0

\* C8 as stated: a drop whose mode is not type, speak or draw is answered
\* 400 and changes neither drops nor streaks.
C8_Original ==
  [][(DropResponded /\ last'.mode \notin validModes) =>
       (last'.status = 400 /\ drops' = drops /\ streaks' = streaks)]_vars

\* C8, amended: a drop whose mode is not type, speak or draw always fails and
\* changes neither drops nor streaks; it is answered 400 unless the caller
\* has reached the daily cap, which is checked first and answered 429.
C8_InvalidModeFails ==
  [][(DropResponded /\ last'.mode \notin validModes) =>
       /\ last'.status = (IF CapReached THEN 429 ELSE 400)
       /\ drops' = drops /\ streaks' = streaks]_vars

C8_Witness ==
  /\ last.op = "drop" /\ last.mode = "zap" /\ last.status = 429
  /\ CountDevice(drops, last.dev, last.today) = 1

\* C9 as stated: while {mode}_enabled is "false", a drop with that mode is
\* answered 403.
C9_Original ==
  [][(DropResponded /\ last'.mode \in validModes
        /\ config[ModeFlag(last'.mode)] = S_false) =>
       last'.status = 403]_vars

\* C9, amended: while {mode}_enabled is "false", every drop with that mode
\* fails and records nothing; it is answered 403 unless the caller has
\* reached the daily cap, which is checked first and answered 429.
C9_DisabledModeFails ==
  [][(DropResponded /\ last'.mode \in validModes
        /\ config[ModeFlag(last'.mode)] = S_false) =>
       /\ last'.status = (IF CapReached THEN 429 ELSE 403)
       /\ drops' = drops /\ streaks' = streaks]_vars

C9_Witness ==
  /\ last.op = "drop" /\ last.mode = "type" /\ last.status = 403
  /\ config["type_enabled"] = S_false
  /\ CountDevice(drops, last.dev, last.today) = 1
  /\ CapNow = Num(2)

\* This step ran the write of the streak rule for a POST /api/drop: the step
\* of a sqlite handler that succeeds, the UPDATE or INSERT of a pg handler
\* that the store takes
StreakWritten ==
  \/ backend = "sqlite" /\ DropResponded /\ last'.status = 200
  \/ \E s \in Slots : reqs[s].pc = "write" /\ reqs'[s].pc = "total"

\* The device and the today of the request whose write it was
Writer ==
  IF backend = "sqlite" THEN [dev |-> last'.dev, today |-> last'.today]
  ELSE LET s == CHOOSE t \in Slots :
                  reqs[t].pc = "write" /\ reqs'[t].pc = "total"
       IN [dev |-> reqs[s].dev, today |-> reqs[s].today]

\* The write found the device's row in streaks
DropOnRow == StreakWritten /\ Writer.dev \in DOMAIN streaks

\* C11 as stated: a successful drop of a device whose last drop was the day
\* before leaves current_streak one greater than it was before the drop.
C11_Claim ==
  [][(DropOnRow /\ streaks[Writer.dev].last_drop_date = Writer.today - 1) =>
       streaks'[Writer.dev].current_streak
         = streaks[Writer.dev].current_streak + 1]_vars

\* C12: a successful drop of a device whose row has last_drop_date two or
\* more days before the request's today sets current_streak to 1, whatever
\* it was; a device with no row gets a row with current_streak 1.
C12_GapResets ==
  [][StreakWritten =>
       IF Writer.dev \in DOMAIN streaks
       THEN streaks[Writer.dev].last_drop_date <= Writer.today - 2 =>
              streaks'[Writer.dev].current_streak = 1
       ELSE streaks'[Writer.dev].current_streak = 1]_vars

C12_Witness ==
  /\ last.op = "drop" /\ last.status = 200 /\ last.today = 3
  /\ streaks[last.dev] =
       [current_streak |-> 1, longest_streak |-> 2, last_drop_date |-> 3]
  /\ DaysOf(drops) = {0, 1, 3}

\* max_chars as POST /api/drop reads it now
MaxCharsNow == MaxCharsOf(config)

\* The column holds a number that is at most max
AtMost(col, max) ==
  col.t \in {"integer", "real"} /\ JsGe(max, col.n)

\* C10 as stated: every row added to drops has a charCount that is at most
\* the max_chars in force.
C10_Original ==
  [][\A r \in Added : AtMost(r.char_count, MaxCharsNow)]_vars

\* C10, amended: every row POST /api/drop adds to drops under a max_chars
\* that parses as a number has a charCount that is at most that number
\* (POST /api/admin/drop does not clamp; under a max_chars that does not
\* parse, sqlite stores NULL and pg rejects the row).
C10_DropClamped ==
  [][\A r \in Added :
       (r.device_hash # AdminHash /\ ~MaxCharsNow.nan) =>
         AtMost(r.char_count, MaxCharsNow)]_vars

C10_Witness ==
  /\ last.op = "drop" /\ last.status = 200
  /\ \E r \in DOMAIN drops :
       r.device_hash = last.dev /\ r.char_count = SqlInteger(Num(200))
  /\ \E r \in DOMAIN drops :
       r.device_hash = last.dev /\ r.char_count = SqlInteger(Num(50))

\* C13 as stated: the config snapshot of a POST /api/drop never holds some of
\* the keys of one PUT /api/admin/config updated and others not (the PUT
\* bodies of SpecPg set drops_per_day to 2 and type_enabled to false).
C13_Claim ==
  \A s \in Slots :
    reqs[s].pc = "count" =>
      (reqs[s].cfg["drops_per_day"] = S_2
         <=> reqs[s].cfg["type_enabled"] = S_false)

\* C14: POST /api/admin/reset-counter leaves no row of drops on its today and
\* leaves the rows of every other day as they were, and a GET /api/count
\* answered next answers 0.
C14_ResetCounterFrame ==
  [][/\ (Responded /\ last'.op = "reset_counter") =>
          /\ CountDay(drops', last'.today) = 0
          /\ \A day \in DaysOf(drops) \ {last'.today} :
                CountDay(drops', day) = CountDay(drops, day)
     /\ (Responded /\ last.op = "reset_counter" /\ last'.op = "count") =>
          last'.count = 0]_vars

C14_Witness ==
  /\ last.op = "count" /\ last.count = 0 /\ last.today = 1
  /\ "d1" \in DOMAIN streaks /\ streaks["d1"].last_drop_date = 1
  /\ CountDay(drops, 0) >= 1

\* C15: POST /api/admin/reset-streaks sets current_streak to 0 in every row
\* of streaks and leaves longest_streak and last_drop_date of every row, and
\* the tables drops and config, unchanged.
C15_ResetStreaksFrame ==
  [][(Responded /\ last'.op = "reset_streaks") =>
       /\ DOMAIN streaks' = DOMAIN streaks
       /\ \A d \in DOMAIN streaks :
            /\ streaks'[d].current_streak = 0
            /\ streaks'[d].longest_streak = streaks[d].longest_streak
            /\ streaks'[d].last_drop_date = streaks[d].last_drop_date
       /\ drops' = drops /\ config' = config]_vars

C15_Witness ==
  /\ last.op = "reset_streaks"
  /\ "d1" \in DOMAIN streaks
  /\ streaks["d1"] =
       [current_streak |-> 0, longest_streak |-> 2, last_drop_date |-> 1]

\* This step ran INSERTs of the seeding loop
SeedStep ==
  \/ Start
  \/ \E n \in KillPoints : StartKilled(n)
  \/ \E s \in Slots :
       /\ reqs[s].pc = "seed" /\ reqs'[s] # reqs[s]
       /\ reqs'[s].pc = "seed" \/ last'.op = "start"

\* C16: at every start of the process, from every config reached before it,
\* the seeding leaves the value of every key already present (default or
\* added by the operator) as it was.
C16_SeedKeepsPresent ==
  [][SeedStep =>
       \A k \in DOMAIN config :
         k \in DOMAIN config' /\ config'[k] = config[k]]_vars

C16_Witness ==
  /\ last.op = "start" /\ Seeded
  /\ config["max_chars"] = <<"1", "0", "0">>
  /\ "theme" \in DOMAIN config

\* C17: from every config table reached and for every body, PUT
\* /api/admin/config applied twice in a row leaves the table as applying it
\* once does.
C17_PutIdempotent ==
  tables =>
    \A updates \in CfgBodies :
      LET once == UpsertMany(backend, config, updates)
          twice == UpsertMany(backend, once.cfg, updates)
      IN twice.cfg = once.cfg /\ twice.ok = once.ok

C17_Witness ==
  /\ last.op = "put_config" /\ last.status = 500
  /\ Seeded /\ config["max_chars"] = S_abc
  /\ config["announcement"] = S_empty

\* This step answered a successful drop that found the device's row with
\* last_drop_date equal to its today
SameDayBranch ==
  DropOnRow /\ streaks[Writer.dev].last_drop_date = Writer.today

\* C19 as stated: with drops_per_day = 1 no successful drop finds
\* last_drop_date equal to today, under any sequence of operations.
C19_Original ==
  [][config["drops_per_day"] = S_1 => ~SameDayBranch]_vars

\* C19, amended: with requests processed one at a time, a successful drop
\* finds last_drop_date equal to today only when drops_per_day > 1, or
\* drops_per_day is not a number, or a reset-counter has deleted the device's
\* drops of today since its last successful drop.
C19_SameDayNeedsReset ==
  [][SameDayBranch =>
       \/ CapNow.nan
       \/ CapNow.n > 1
       \/ /\ hist[Writer.dev].sday = Writer.today
          /\ hist[Writer.dev].m = 0]_vars

C19_Witness ==
  /\ config = defaults
  /\ last.op = "drop" /\ last.status = 200
  /\ hist[last.dev].sday = last.today
  /\ hist[last.dev].n = 2 /\ hist[last.dev].m = 1
  /\ streaks[last.dev].last_drop_date = last.today

\* The status a backend answers a POST /api/drop with, in this state
DropStatus(be, dev, body) ==
  LET status == Admission(config, CountDevice(drops, dev, Today(now)),
                          BodyMode(body))
  IN IF status # 200 THEN status
     ELSE IF BindChars(be, JNumber(ClampChars(config, BodyCharCount(body)))).ok
     THEN 200 ELSE 500

\* C20 as stated: with requests processed one at a time, in every state the
\* two backends answer a POST /api/drop alike and apply a PUT
\* /api/admin/config alike.
C20_Claim ==
  /\ \A dev \in Devices, body \in DropBodies :
       DropStatus("sqlite", dev, body) = DropStatus("pg", dev, body)
  /\ \A updates \in FlagBodies :
       UpsertMany("sqlite", config, updates) = UpsertMany("pg", config, updates)

\* The `yesterday` of the drop this step answered: a handler that is one
\* step reads Date.now() for it last, at the clock the step ends with.
YesterdayRead == Yesterday(now')

\* C18 as stated: the yesterday a successful POST /api/drop compares against
\* is the calendar day immediately before the today it writes (a pg handler
\* reads it when it goes on from the SELECT of the streak row).
C18_Claim ==
  [][/\ (backend = "sqlite" /\ DropResponded /\ last'.status = 200) =>
          YesterdayRead = last'.today - 1
     /\ \A s \in Slots :
          (reqs[s].pc = "streak" /\ reqs'[s].pc = "write") =>
            Yesterday(now) = reqs[s].today - 1]_vars

\* C21 as stated: right after a successful POST /api/drop the calling
\* device's row of streaks has current_streak >= 1.
C21_Original ==
  (last.op = "drop" /\ last.status = 200) =>
    /\ last.dev \in DOMAIN streaks
    /\ streaks[last.dev].current_streak >= 1

\* C21, amended: with requests processed one at a time, a successful POST
\* /api/drop leaves the calling device's row with current_streak >= 1, unless
\* it found the row with last_drop_date equal to its today and current_streak
\* 0 (reset-streaks after the device's earlier drop of the day): then
\* current_streak stays 0.
C21_AtLeastOneUnlessReset ==
  [][StreakWritten =>
       /\ Writer.dev \in DOMAIN streaks'
       /\ \/ streaks'[Writer.dev].current_streak >= 1
          \/ /\ Writer.dev \in DOMAIN streaks
             /\ streaks[Writer.dev].last_drop_date = Writer.today
             /\ streaks[Writer.dev].current_streak = 0
             /\ streaks'[Writer.dev].current_streak = 0]_vars

C21_Witness ==
  /\ last.op = "drop" /\ last.status = 200
  /\ hist[last.dev].sday = last.today /\ hist[last.dev].n = 2
  /\ streaks[last.dev] =
       [current_streak |-> 0, longest_streak |-> 1,
        last_drop_date |-> last.today]

====
